---- MODULE Spec2Model ----
(***************************************************************************)
(* Change-capture and notification pipeline of rust_db.                    *)
(*                                                                         *)
(*   src/src/db/monitor.rs  preupdate hook, EVENT_CHANNEL, SWIFT_CALLBACK, *)
(*                          start_event_dispatcher                         *)
(*   src/src/lib.rs         swift_main, init_database, set_swift_callback  *)
(*                                                                         *)
(* Writers run SQL statements on a connection that carries the preupdate   *)
(* hook; the hook builds a PreUpdateEvent and sends it on EVENT_CHANNEL;   *)
(* dispatcher threads receive events and call the registered callback.     *)
(***************************************************************************)
EXTENDS Integers, Sequences, FiniteSets, TLC

(***************************************************************************)
(* Bounds of the model.                                                    *)
(***************************************************************************)
\* statements the writers execute in one behaviour
MaxEvents == 2
\* calls of register_swift_callback / set_swift_callback in one behaviour
MaxRegs == 2
\* column reads (sqlite3_preupdate_old / _new) that fail in one behaviour
MaxReadFailures == 1
\* rows the history table holds in one behaviour
MaxRecords == 2
\* readings of the wall clock: SystemTime::now() is one of 1..MaxTime
MaxTime == 2
\* largest try_count a row is driven to
MaxTries == 2
\* restarts of the reconciler in one behaviour
MaxRestarts == 1
\* bytes of a BLOB column value
MaxBlobLen == 3
\* bytes of a TEXT column value
MaxTextLen == 2

\* writer contexts; writer w works on the row with rowid RowIdOf(w)
Writers == {"w1", "w2"}
\* threads that start_event_dispatcher can spawn
Dispatchers == {"d1", "d2"}
\* extern "C" functions the host can register
Callbacks == {"c1", "c2"}
\* column indices of the table the writers use: id INTEGER, name TEXT
Cols == {0, 1}
\* the name an INSERT stores and the name an UPDATE sets
InsertName == <<97>>
UpdateName == <<98>>

RowIdOf(w) == IF w = "w1" THEN 1 ELSE 2

(***************************************************************************)
(* Option<T>.                                                              *)
(***************************************************************************)
None == [some |-> FALSE, v |-> <<>>]
Some(x) == [some |-> TRUE, v |-> x]

\* Option<extern "C" fn(*const c_char)>: a function pointer or nothing
NoCallback == "None"

(***************************************************************************)
(* rusqlite::types::ValueRef and the value codec.                          *)
(***************************************************************************)
VNull == [t |-> "Null", i |-> 0, s |-> ""]
VInteger(n) == [t |-> "Integer", i |-> n, s |-> ""]
\* Text(&[u8]): the bytes of the text
VText(bytes) == [t |-> "Text", i |-> 0, s |-> bytes]
\* Real(f64): a finite value is given by its sign, its integer part and the
\* digits after the point of its shortest decimal form; class is "finite",
\* "nan" or "inf"
VReal(class, neg, whole, frac) ==
    [t |-> "Real", class |-> class, neg |-> neg, whole |-> whole,
     frac |-> frac]
\* Blob(&[u8])
VBlob(bytes) == [t |-> "Blob", b |-> bytes]

Digit(d) == CASE d = 0 -> "0" [] d = 1 -> "1" [] d = 2 -> "2" [] d = 3 -> "3"
              [] d = 4 -> "4" [] d = 5 -> "5" [] d = 6 -> "6" [] d = 7 -> "7"
              [] d = 8 -> "8" [] d = 9 -> "9"

RECURSIVE NatToString(_)
NatToString(n) == IF n < 10 THEN Digit(n)
                  ELSE NatToString(n \div 10) \o Digit(n % 10)

\* i64::to_string / i32 Display: decimal text, "-" for negatives
IntToString(n) == IF n < 0 THEN "-" \o NatToString(-n) ELSE NatToString(n)

RECURSIVE Digits(_)
Digits(ds) == IF ds = <<>> THEN "" ELSE Digit(Head(ds)) \o Digits(Tail(ds))

\* f64 Display: "NaN", "inf", "-inf", else the shortest decimal form without
\* exponent, no point when the value is integral
RealToString(v) ==
    CASE v.class = "nan" -> "NaN"
      [] v.class = "inf" -> IF v.neg THEN "-inf" ELSE "inf"
      [] v.class = "finite" ->
            (IF v.neg THEN "-" ELSE "") \o NatToString(v.whole)
              \o (IF v.frac = <<>> THEN "" ELSE "." \o Digits(v.frac))

\* the character of a one-byte UTF-8 sequence (the bytes the model uses)
Utf8Char(b) == CASE b = 97 -> "a" [] b = 98 -> "b" [] b = 32 -> " "

\* String::from_utf8_lossy: a byte that is not valid UTF-8 becomes U+FFFD
RECURSIVE from_utf8_lossy(_)
from_utf8_lossy(bytes) ==
    IF bytes = <<>> THEN ""
    ELSE (IF Head(bytes) < 128 THEN Utf8Char(Head(bytes)) ELSE "\\u{FFFD}")
           \o from_utf8_lossy(Tail(bytes))

\* the standard base64 alphabet
Base64Alphabet ==
    <<"A", "B", "C", "D", "E", "F", "G", "H", "I", "J", "K", "L", "M",
      "N", "O", "P", "Q", "R", "S", "T", "U", "V", "W", "X", "Y", "Z",
      "a", "b", "c", "d", "e", "f", "g", "h", "i", "j", "k", "l", "m",
      "n", "o", "p", "q", "r", "s", "t", "u", "v", "w", "x", "y", "z",
      "0", "1", "2", "3", "4", "5", "6", "7", "8", "9", "+", "/">>

Base64Char(sextet) == Base64Alphabet[sextet + 1]

\* base64::encode: three bytes give four characters, a last group of one or
\* two bytes is padded with "="
RECURSIVE base64_encode(_)
base64_encode(b) ==
    IF Len(b) = 0 THEN ""
    ELSE IF Len(b) = 1
         THEN Base64Char(b[1] \div 4) \o Base64Char((b[1] % 4) * 16) \o "=="
    ELSE IF Len(b) = 2
         THEN Base64Char(b[1] \div 4)
                \o Base64Char((b[1] % 4) * 16 + b[2] \div 16)
                \o Base64Char((b[2] % 16) * 4) \o "="
    ELSE Base64Char(b[1] \div 4)
           \o Base64Char((b[1] % 4) * 16 + b[2] \div 16)
           \o Base64Char((b[2] % 16) * 4 + b[3] \div 64)
           \o Base64Char(b[3] % 64)
           \o base64_encode(SubSeq(b, 4, Len(b)))

\* mutant: a blob is passed on as the decimal text of its bytes
value_to_string_raw(v) ==
    CASE v.t = "Null" -> "NULL"
      [] v.t = "Integer" -> IntToString(v.i)
      [] v.t = "Real" -> RealToString(v)
      [] v.t = "Text" -> from_utf8_lossy(v.s)
      [] v.t = "Blob" -> Digits([k \in 1..Len(v.b) |-> v.b[k] % 10])

\* value_to_string
value_to_string(v) ==
    CASE v.t = "Null" -> "NULL"
      [] v.t = "Integer" -> IntToString(v.i)
      [] v.t = "Real" -> RealToString(v)
      [] v.t = "Text" -> from_utf8_lossy(v.s)
      [] v.t = "Blob" -> base64_encode(v.b)

(***************************************************************************)
(* collect_old_values / collect_new_values.  An accessor is the row image  *)
(* plus the set of column indices whose read returns Err.                  *)
(***************************************************************************)
Accessor(image, failing) == [image |-> image, failing |-> failing]

get_column_count(acc) == Len(acc.image)

RECURSIVE collect_from(_, _, _)
collect_from(acc, i, pairs) ==
    IF i >= get_column_count(acc) THEN pairs
    ELSE IF i \in acc.failing
         THEN collect_from(acc, i + 1, pairs)
         ELSE collect_from(acc, i + 1,
                  Append(pairs, <<"col_" \o IntToString(i),
                                  value_to_string(acc.image[i + 1])>>))

collect_old_values(acc) == <<get_column_count(acc), collect_from(acc, 0, <<>>)>>

collect_new_values(acc) == <<get_column_count(acc), collect_from(acc, 0, <<>>)>>


(***************************************************************************)
(* State.                                                                  *)
(***************************************************************************)
VARIABLES
    GLOBAL_CONN,      \* lib.rs GLOBAL_CONN: TRUE when it holds Some(connection)
    SWIFT_CALLBACK,   \* monitor.rs SWIFT_CALLBACK
    queue,            \* events held by EVENT_CHANNEL, oldest first
    table,            \* table[w]: Option of the row image of writer w's row
    dpc,              \* dpc[d]: position of dispatcher thread d in its loop
    devt,             \* devt[d]: Option of the event d received
    mainResult,       \* return value of swift_main, -1 before it returns
    nextId,           \* history: number of hook invocations
    readFailures,     \* history: number of column reads that failed
    dequeued,         \* history: event ids in the order they were received
    invoked,          \* history: callback invocations in the order they began
    dropped,          \* history: ids of events received while no callback was set
    regHist,          \* history: callbacks in the order they were registered
    replacedAt,       \* history: replacedAt[i] = index in regHist of the last
                      \* registration that replaced a callback while event i
                      \* was in the queue, 0 if there was none
    shutdown,         \* history: TRUE once the host has asked the pipeline to
                      \* shut down
    history,          \* rows of the table `history`, in rowid order
    result,           \* the last call of a PersistentHistory method: its
                      \* name, arguments and return value
    prevQuery,        \* Some(result) while the call before the last one was a
                      \* get_records_after that returned Ok, else None
    local_last_timestamp,   \* DataMonitor.local_last_timestamp
    sender_last_timestamp,  \* DataMonitor.sender_last_timestamp
    lastCycle,        \* history: lastCycle[p] describes the last cycle of
                      \* partition p that read the ledger: the ids of the
                      \* partition's records in its batch and the handler
                      \* calls it made, in order
    initOk,           \* history: TRUE once a call of init_database has
                      \* returned 0
    ready,            \* return value of the last check_db_ready, -1 before
                      \* the first call
    contact_data,     \* rows of the table `contact_data`
    contactCall,      \* the last call of a ContactRepo method: its name,
                      \* arguments and return value
    message_data,     \* rows of the table `message_data`
    messageCall,      \* the last call of a MessageRepo method: its name,
                      \* arguments and return value
    cbAccess,         \* cbAccess[t]: the access of thread t to the static
                      \* SWIFT_CALLBACK that is in progress, and for a
                      \* dispatcher thread the value its last read gave
    value,            \* the ValueRef handed to value_to_string
    encoded,          \* Option of the String value_to_string returned for it
    handlerLog        \* history of the handler calls of all cycles:
                      \*   passed[p]  ids of the records passed to the handler
                      \*              of partition p
                      \*   again[p]   ids passed to it more than once
                      \*   done[p]    ids for which it returned Ok
                      \*   failed     TRUE once a handler has returned Err
                      \*   restarts   times the monitor was created again
                      \*   present    ids in the ledger at the last restart

vars == <<GLOBAL_CONN, SWIFT_CALLBACK, queue, table, dpc, devt, mainResult,
          nextId, readFailures, dequeued, invoked, dropped, regHist,
          replacedAt, shutdown, history, result, prevQuery,
          local_last_timestamp, sender_last_timestamp, lastCycle,
          handlerLog, initOk, ready, contact_data, contactCall,
          message_data, messageCall, cbAccess, value, encoded>>

pipeVars == <<SWIFT_CALLBACK, queue, dpc, devt, dequeued, invoked, dropped,
              regHist, replacedAt>>
writerVars == <<table, nextId, readFailures>>
\* what no operation of the capture-and-dispatch pipeline touches
ledgerVars == <<history, result, prevQuery>>
monitorVars == <<local_last_timestamp, sender_last_timestamp, lastCycle,
                 handlerLog>>
connVars == <<GLOBAL_CONN, initOk>>
codecVars == <<value, encoded>>
\* the state of the components that stand beside the pipeline
contactVars == <<contact_data, contactCall>>
messageVars == <<message_data, messageCall>>
appVars == <<ready, codecVars, contactVars, messageVars, cbAccess>>
outsideVars == <<shutdown, ledgerVars, monitorVars, appVars>>
\* what no operation of the history ledger touches
pipelineVars == <<connVars, pipeVars, writerVars, mainResult, shutdown,
                  appVars>>
\* the pipeline, the ledger and the reconciler
programVars == <<connVars, pipeVars, writerVars, mainResult, shutdown,
                 ledgerVars, monitorVars>>

EventIds == 1..MaxEvents

InitProgram ==
    /\ GLOBAL_CONN = FALSE
    /\ initOk = FALSE
    /\ ready = -1
    /\ SWIFT_CALLBACK = NoCallback
    /\ queue = <<>>
    /\ table = [w \in Writers |-> None]
    /\ dpc = [d \in Dispatchers |-> "off"]
    /\ devt = [d \in Dispatchers |-> None]
    /\ mainResult = -1
    /\ nextId = 0
    /\ readFailures = 0
    /\ dequeued = <<>>
    /\ invoked = <<>>
    /\ dropped = {}
    /\ regHist = <<>>
    /\ replacedAt = [i \in EventIds |-> 0]
    /\ shutdown = FALSE
    /\ history = <<>>
    /\ result = [op |-> "none"]
    /\ prevQuery = None
    /\ local_last_timestamp = 0
    /\ sender_last_timestamp = 0
    /\ lastCycle = [p \in {"local", "sender"} |->
                       [ran |-> FALSE, ok |-> TRUE, batch |-> <<>>,
                        calls |-> <<>>]]
    /\ handlerLog = [passed |-> [p \in {"local", "sender"} |-> {}],
                     again |-> [p \in {"local", "sender"} |-> {}],
                     done |-> [p \in {"local", "sender"} |-> {}],
                     failed |-> FALSE, restarts |-> 0, present |-> {}]

\* no value is being encoded
InitCodec ==
    /\ value = VNull
    /\ encoded = None

\* create_contact_table on a new database
InitContacts ==
    /\ contact_data = {}
    /\ contactCall = [op |-> "none"]

\* create_message_table on a new database
InitMessages ==
    /\ message_data = {}
    /\ messageCall = [op |-> "none"]

\* host threads that call register_swift_callback
Hosts == {"h1", "h2"}

\* no thread is reading or writing SWIFT_CALLBACK
InitAccess ==
    cbAccess = [t \in Hosts \cup Dispatchers |->
                  [pc |-> "idle", cb |-> NoCallback, raced |-> FALSE]]

Init ==
    /\ InitProgram
    /\ InitCodec
    /\ InitContacts
    /\ InitMessages
    /\ InitAccess

(***************************************************************************)
(* lib.rs: init_database, set_swift_callback, swift_main.                  *)
(***************************************************************************)
InitOutcomes == {"null_argument", "open_failed", "migrations_failed", "ok"}

\* return code of init_database
init_database_code(outcome) ==
    CASE outcome = "null_argument" -> 1
      [] outcome = "open_failed" -> 1
      [] outcome = "migrations_failed" -> 2
      [] outcome = "ok" -> 0

\* mutant: the connection is stored as soon as it is open
init_database_conn_opened(outcome, conn) ==
    IF outcome \in {"ok", "migrations_failed"} THEN TRUE ELSE conn

\* the connection slot after init_database: only success stores a connection
\* (with the preupdate hook registered on it)
init_database_conn(outcome, conn) == IF outcome = "ok" THEN TRUE ELSE conn

init_database(outcome) ==
    /\ GLOBAL_CONN' = init_database_conn(outcome, GLOBAL_CONN)
    /\ initOk' = (initOk \/ init_database_code(outcome) = 0)
    /\ UNCHANGED <<pipeVars, writerVars, mainResult>>
    /\ UNCHANGED outsideVars

\* ids of the events in the queue
QueuedIds == {queue[k].id : k \in 1..Len(queue)}

\* history kept beside a registration: the events it found in the queue
MarkReplaced ==
    IF SWIFT_CALLBACK = NoCallback THEN replacedAt
    ELSE [i \in EventIds |->
            IF i \in QueuedIds THEN Len(regHist) + 1 ELSE replacedAt[i]]

\* mutant: the first registration is kept, later ones are ignored
StoreCallbackOnce(cb) ==
    /\ SWIFT_CALLBACK' = IF SWIFT_CALLBACK = NoCallback THEN cb ELSE SWIFT_CALLBACK
    /\ regHist' = Append(regHist, cb)
    /\ replacedAt' = MarkReplaced
    /\ UNCHANGED <<queue, devt, dequeued, invoked, dropped>>

\* mutant: a registration starts from an empty channel
StoreCallbackFlush(cb) ==
    /\ SWIFT_CALLBACK' = cb
    /\ regHist' = Append(regHist, cb)
    /\ replacedAt' = MarkReplaced
    /\ queue' = <<>>
    /\ UNCHANGED <<devt, dequeued, invoked, dropped>>

\* unsafe { SWIFT_CALLBACK = Some(cb); }: the pointer is overwritten, the channel
\* is not touched
StoreCallback(cb) ==
    /\ SWIFT_CALLBACK' = cb
    /\ regHist' = Append(regHist, cb)
    /\ replacedAt' = MarkReplaced
    /\ UNCHANGED <<queue, devt, dequeued, invoked, dropped>>

register_swift_callback(cb) ==
    /\ Len(regHist) < MaxRegs
    /\ StoreCallback(cb)
    /\ UNCHANGED <<connVars, writerVars, mainResult, dpc>>
    /\ UNCHANGED outsideVars

set_swift_callback(cb) == register_swift_callback(cb)

\* the dispatcher threads after start_background_services: the thread it spawns
\* looks at GLOBAL_CONN, does nothing with it and ends
start_background_services(threads) == threads

\* swift_main: env_logger::init() allows one call per process
swift_main(outcome, cb) ==
    /\ mainResult = -1
    /\ GLOBAL_CONN' = init_database_conn(outcome, GLOBAL_CONN)
    /\ initOk' = (initOk \/ init_database_code(outcome) = 0)
    /\ mainResult' = init_database_code(outcome)
    /\ IF init_database_code(outcome) # 0
       THEN UNCHANGED pipeVars
       ELSE /\ Len(regHist) < MaxRegs
            /\ StoreCallback(cb)
            /\ dpc' = start_background_services(dpc)
    /\ UNCHANGED writerVars
    /\ UNCHANGED outsideVars

(***************************************************************************)
(* Writers: SQL statements on the hooked connection.                       *)
(***************************************************************************)
Operations == {"INSERT", "UPDATE", "DELETE", "UNKNOWN"}

RowImage(w, name) == <<VInteger(RowIdOf(w)), VText(name)>>

\* PreUpdateCase: what the engine hands the hook for a statement on a row
CaseOf(w, op, row) ==
    CASE op = "INSERT" -> [operation |-> op, old |-> None,
                           new |-> Some(RowImage(w, InsertName))]
      [] op = "UPDATE" -> [operation |-> op, old |-> row,
                           new |-> Some(RowImage(w, UpdateName))]
      [] op = "DELETE" -> [operation |-> op, old |-> row, new |-> None]
      [] op = "UNKNOWN" -> [operation |-> op, old |-> None, new |-> None]

\* the row after the statement whose hook ran
RowAfter(row, case) ==
    CASE case.operation = "INSERT" -> case.new
      [] case.operation = "UPDATE" -> case.new
      [] case.operation = "DELETE" -> None
      [] case.operation = "UNKNOWN" -> row

\* writer w can run statement op: the connection exists and the row fits
CanExecute(w, op) ==
    /\ GLOBAL_CONN
    /\ nextId < MaxEvents
    /\ op = "INSERT" => ~table[w].some
    /\ op \in {"UPDATE", "DELETE"} => table[w].some

(***************************************************************************)
(* monitor.rs: register_preupdate_hook, the hook closure.                  *)
(***************************************************************************)
\* the PreUpdateEvent the closure builds; id and writer are history fields
PreUpdateEvent(id, w, db, tbl, case, oldFail, newFail) ==
    LET operation == case.operation
        triple ==
            CASE case.operation = "INSERT" ->
                   <<RowIdOf(w), None,
                     Some(collect_new_values(Accessor(case.new.v, newFail))[2])>>
              [] case.operation = "DELETE" ->
                   <<RowIdOf(w),
                     Some(collect_old_values(Accessor(case.old.v, oldFail))[2]),
                     None>>
              [] case.operation = "UPDATE" ->
                   <<RowIdOf(w),
                     Some(collect_old_values(Accessor(case.old.v, oldFail))[2]),
                     Some(collect_new_values(Accessor(case.new.v, newFail))[2])>>
              [] case.operation = "UNKNOWN" -> <<0, None, None>>
    IN [id |-> id, writer |-> w, db_name |-> db, table |-> tbl,
        operation |-> operation, rowid |-> triple[1],
        old_values |-> triple[2], new_values |-> triple[3]]

\* mutant: a rendezvous-style bounded channel, whose send waits while it is full
CanSendBounded(q) == Len(q) < 1

\* EVENT_CHANNEL is mpsc::channel(): Sender::send never waits for room
CanSend(q) == TRUE

\* Sender::send on a channel whose receiver lives in a static: always Ok
Send(q, evt) == Append(q, evt)

\* the engine runs the hook for statement op of writer w (the closure builds the
\* event and sends it), then the statement changes the row
preupdate_hook(w, op, oldFail, newFail) ==
    /\ CanExecute(w, op)
    /\ op \in {"INSERT", "UNKNOWN"} => oldFail = {}
    /\ op \in {"DELETE", "UNKNOWN"} => newFail = {}
    /\ readFailures + Cardinality(oldFail) + Cardinality(newFail) <= MaxReadFailures
    /\ CanSend(queue)
    /\ LET case == CaseOf(w, op, table[w])
           evt == PreUpdateEvent(nextId + 1, w, "main", "test_table", case,
                                 oldFail, newFail)
       IN /\ queue' = Send(queue, evt)
          /\ table' = [table EXCEPT ![w] = RowAfter(table[w], case)]
    /\ nextId' = nextId + 1
    /\ readFailures' = readFailures + Cardinality(oldFail) + Cardinality(newFail)
    /\ UNCHANGED <<connVars, mainResult, SWIFT_CALLBACK, dpc, devt,
                   dequeued, invoked, dropped, regHist, replacedAt>>
    /\ UNCHANGED outsideVars

(***************************************************************************)
(* monitor.rs: start_event_dispatcher and the loop of the spawned thread.  *)
(*   "off"          not spawned                                            *)
(*   "recv"         at recv_timeout (a timeout leads back here)            *)
(*   "got"          holds an event, about to serialize it and read the     *)
(*                  callback pointer                                       *)
(*   "in_callback"  read Some(func); func is running                       *)
(***************************************************************************)
start_event_dispatcher(d) ==
    /\ dpc[d] = "off"
    /\ dpc' = [dpc EXCEPT ![d] = "recv"]
    /\ UNCHANGED <<connVars, writerVars, mainResult, SWIFT_CALLBACK, queue,
                   devt, dequeued, invoked, dropped, regHist, replacedAt>>
    /\ UNCHANGED outsideVars

\* mutant: the event is read but stays in the channel
DispatcherRecvPeek(d) ==
    /\ dpc[d] = "recv"
    /\ queue # <<>>
    /\ devt' = [devt EXCEPT ![d] = Some(Head(queue))]
    /\ dequeued' = Append(dequeued, Head(queue).id)
    /\ dpc' = [dpc EXCEPT ![d] = "got"]
    /\ UNCHANGED <<connVars, writerVars, mainResult, SWIFT_CALLBACK, queue,
                   invoked, dropped, regHist, replacedAt>>
    /\ UNCHANGED outsideVars

\* rx_lock.recv_timeout(..).ok() under the receiver's mutex, when it returns Some
DispatcherRecv(d) ==
    /\ dpc[d] = "recv"
    /\ queue # <<>>
    /\ devt' = [devt EXCEPT ![d] = Some(Head(queue))]
    /\ queue' = Tail(queue)
    /\ dequeued' = Append(dequeued, Head(queue).id)
    /\ dpc' = [dpc EXCEPT ![d] = "got"]
    /\ UNCHANGED <<connVars, writerVars, mainResult, SWIFT_CALLBACK,
                   invoked, dropped, regHist, replacedAt>>
    /\ UNCHANGED outsideVars

\* mutant: an event found without a callback is put back for a later delivery
DispatcherCallRequeue(d) ==
    /\ dpc[d] = "got"
    /\ IF SWIFT_CALLBACK = NoCallback
       THEN /\ dropped' = dropped \cup {devt[d].v.id}
            /\ queue' = Append(queue, devt[d].v)
            /\ devt' = [devt EXCEPT ![d] = None]
            /\ dpc' = [dpc EXCEPT ![d] = "recv"]
            /\ UNCHANGED invoked
       ELSE /\ invoked' = Append(invoked, [id |-> devt[d].v.id,
                                           writer |-> devt[d].v.writer,
                                           cb |-> SWIFT_CALLBACK,
                                           reg |-> Len(regHist)])
            /\ dpc' = [dpc EXCEPT ![d] = "in_callback"]
            /\ UNCHANGED <<dropped, devt, queue>>
    /\ UNCHANGED <<connVars, writerVars, mainResult, SWIFT_CALLBACK,
                   dequeued, regHist, replacedAt>>
    /\ UNCHANGED outsideVars

\* if let Some(func) = SWIFT_CALLBACK { func(cstr.as_ptr()) }: the pointer is
\* read and, when it is Some, the call begins
DispatcherCall(d) ==
    /\ dpc[d] = "got"
    /\ IF SWIFT_CALLBACK = NoCallback
       THEN /\ dropped' = dropped \cup {devt[d].v.id}
            /\ devt' = [devt EXCEPT ![d] = None]
            /\ dpc' = [dpc EXCEPT ![d] = "recv"]
            /\ UNCHANGED invoked
       ELSE /\ invoked' = Append(invoked, [id |-> devt[d].v.id,
                                           writer |-> devt[d].v.writer,
                                           cb |-> SWIFT_CALLBACK,
                                           reg |-> Len(regHist)])
            /\ dpc' = [dpc EXCEPT ![d] = "in_callback"]
            /\ UNCHANGED <<dropped, devt>>
    /\ UNCHANGED <<connVars, writerVars, mainResult, SWIFT_CALLBACK, queue,
                   dequeued, regHist, replacedAt>>
    /\ UNCHANGED outsideVars

\* the callback returns; the loop goes back to recv_timeout
DispatcherReturn(d) ==
    /\ dpc[d] = "in_callback"
    /\ devt' = [devt EXCEPT ![d] = None]
    /\ dpc' = [dpc EXCEPT ![d] = "recv"]
    /\ UNCHANGED <<connVars, writerVars, mainResult, SWIFT_CALLBACK, queue,
                   dequeued, invoked, dropped, regHist, replacedAt>>
    /\ UNCHANGED outsideVars

(***************************************************************************)
(* Specifications.                                                         *)
(***************************************************************************)
Next ==
    \/ \E outcome \in InitOutcomes : init_database(outcome)
    \/ \E cb \in Callbacks : register_swift_callback(cb)
    \/ \E cb \in Callbacks : set_swift_callback(cb)
    \/ \E outcome \in InitOutcomes, cb \in Callbacks : swift_main(outcome, cb)
    \/ \E w \in Writers, op \in Operations :
          \E oldFail \in SUBSET Cols, newFail \in SUBSET Cols :
              preupdate_hook(w, op, oldFail, newFail)
    \/ \E d \in Dispatchers : start_event_dispatcher(d)
    \/ \E d \in Dispatchers : DispatcherRecv(d)
    \/ \E d \in Dispatchers : DispatcherCall(d)
    \/ \E d \in Dispatchers : DispatcherReturn(d)

Spec == Init /\ [][Next]_vars

\* a spawned dispatcher thread is scheduled, and a callback returns
DispatcherStep(d) ==
    \/ DispatcherRecv(d)
    \/ DispatcherCall(d)
    \/ DispatcherReturn(d)

FairSpec == Spec /\ \A d \in Dispatchers : WF_vars(DispatcherStep(d))

(***************************************************************************)
(* The callback fails, the host wants to shut down.                        *)
(*   func(cstr.as_ptr()) is called with no catch_unwind around it and the  *)
(*   callback has the "C" ABI: a panic inside it either aborts the process *)
(*   or unwinds out of the closure of thread::spawn and ends the thread.   *)
(*   "panicked"  the thread was ended by the unwinding panic               *)
(*   "aborted"   the process was aborted in this thread                    *)
(***************************************************************************)
PanicOutcomes == {"abort", "unwind"}

\* no thread has aborted the process
Alive == \A d \in Dispatchers : dpc[d] # "aborted"

DispatcherPanic(d, outcome) ==
    /\ dpc[d] = "in_callback"
    /\ devt' = [devt EXCEPT ![d] = None]
    /\ dpc' = [dpc EXCEPT ![d] = IF outcome = "abort" THEN "aborted"
                                                      ELSE "panicked"]
    /\ UNCHANGED <<connVars, writerVars, mainResult, SWIFT_CALLBACK, queue,
                   dequeued, invoked, dropped, regHist, replacedAt>>
    /\ UNCHANGED outsideVars

\* the host asks for a shutdown; the loop of start_event_dispatcher has no exit
\* and the crate exports nothing that stops it, closes the channel or clears the
\* callback: the request changes nothing in the program
request_shutdown ==
    /\ ~shutdown
    /\ shutdown' = TRUE
    /\ UNCHANGED <<connVars, pipeVars, writerVars, mainResult, ledgerVars,
                   monitorVars, appVars>>

\* Next while no thread has aborted the process, the failing callback, the
\* shutdown request
FaultNext ==
    \/ Alive /\ \E outcome \in InitOutcomes : init_database(outcome)
    \/ Alive /\ \E cb \in Callbacks : register_swift_callback(cb)
    \/ Alive /\ \E cb \in Callbacks : set_swift_callback(cb)
    \/ Alive /\ \E outcome \in InitOutcomes, cb \in Callbacks :
                   swift_main(outcome, cb)
    \/ Alive /\ \E w \in Writers, op \in Operations :
                   \E oldFail \in SUBSET Cols, newFail \in SUBSET Cols :
                       preupdate_hook(w, op, oldFail, newFail)
    \/ Alive /\ \E d \in Dispatchers : start_event_dispatcher(d)
    \/ Alive /\ \E d \in Dispatchers : DispatcherRecv(d)
    \/ Alive /\ \E d \in Dispatchers : DispatcherCall(d)
    \/ Alive /\ \E d \in Dispatchers : DispatcherReturn(d)
    \/ Alive /\ \E d \in Dispatchers, outcome \in PanicOutcomes :
                   DispatcherPanic(d, outcome)
    \/ Alive /\ request_shutdown

FaultSpec == Init /\ [][FaultNext]_vars

(***************************************************************************)
(* history.rs: the history ledger.                                         *)
(*   A row of the table is                                                 *)
(*     [id, entity_name, entity_id, change_type, author, created_at,       *)
(*      sync_status, try_count]                                            *)
(*   with change_type stored as an integer.  id is INTEGER PRIMARY KEY     *)
(*   AUTOINCREMENT and no row is ever deleted, so the row with id k is     *)
(*   history[k].  created_at is a reading of the wall clock, which may     *)
(*   repeat and may go back.                                               *)
(***************************************************************************)
Times == 1..MaxTime

\* enum ChangeType { Insert = 0, Update = 1, Delete = 2, Unknown = 3 } as i64
ChangeTypeAsInt(ct) ==
    CASE ct = "Insert" -> 0
      [] ct = "Update" -> 1
      [] ct = "Delete" -> 2
      [] ct = "Unknown" -> 3

\* impl TryFrom<i64> for ChangeType
ChangeTypeTryFrom(n) ==
    CASE n = 0 -> Some("Insert")
      [] n = 1 -> Some("Update")
      [] n = 2 -> Some("Delete")
      [] n = 3 -> Some("Unknown")
      [] OTHER -> None

\* struct HistoryRecord
HistoryRecord(id, name, eid, ct, author, created, status, tries) ==
    [id |-> id, entity_name |-> name, entity_id |-> eid, change_type |-> ct,
     author |-> author, created_at |-> created, sync_status |-> status,
     try_count |-> tries]

\* the records callers pass to add_record: id is None, created_at is whatever
\* the caller filled in
InputRecords ==
    { HistoryRecord(None, "ContactData", "u1", "Insert", "local_author", 0, 0, 0),
      HistoryRecord(None, "MessageData", "u2", "Update", "sender", 9, 1, 1) }

\* storage outcomes of a statement
IoOutcomes == {"ok", "io_error"}

\* sync_status values passed to update_sync_status: a value no input record
\* carries
Statuses == {2}

\* the row that the INSERT of add_record writes
InsertedRow(record, now, rowid) ==
    [id |-> rowid,
     entity_name |-> record.entity_name,
     entity_id |-> record.entity_id,
     change_type |-> ChangeTypeAsInt(record.change_type),
     author |-> record.author,
     created_at |-> now,
     sync_status |-> record.sync_status,
     try_count |-> record.try_count]

\* the closure of query_map: a row read back as a HistoryRecord
RowToRecord(row) ==
    HistoryRecord(Some(row.id), row.entity_name, row.entity_id,
                  IF ChangeTypeTryFrom(row.change_type).some
                  THEN ChangeTypeTryFrom(row.change_type).v ELSE "Unknown",
                  row.author, row.created_at, row.sync_status, row.try_count)

\* ORDER BY created_at ASC over the rows in scan order: a row goes behind the
\* rows that are not greater than it
RECURSIVE InsertByCreatedAt(_, _)
InsertByCreatedAt(sorted, row) ==
    IF sorted = <<>> THEN <<row>>
    ELSE IF Head(sorted).created_at <= row.created_at
         THEN <<Head(sorted)>> \o InsertByCreatedAt(Tail(sorted), row)
         ELSE <<row>> \o sorted

RECURSIVE OrderByCreatedAt(_)
OrderByCreatedAt(rows) ==
    IF rows = <<>> THEN <<>>
    ELSE InsertByCreatedAt(OrderByCreatedAt(SubSeq(rows, 1, Len(rows) - 1)),
                           rows[Len(rows)])

\* mutant: WHERE created_at >= ?1
WhereCreatedAtFrom(row, after_ts) == row.created_at >= after_ts

\* WHERE created_at > ?1
WhereCreatedAt(row, after_ts) == row.created_at > after_ts

\* SELECT .. FROM history WHERE created_at > ?1 ORDER BY created_at ASC
SelectAfter(rows, after_ts) ==
    OrderByCreatedAt(SelectSeq(rows, LAMBDA row : WhereCreatedAt(row, after_ts)))

\* the call before this one, as far as the next call remembers it
NotePrevQuery ==
    IF result.op = "get_records_after" /\ result.ok THEN Some(result) ELSE None

\* mutant: the status and the counter are written to every row
UpdateAllRows(rows, record_id, status) ==
    [k \in 1..Len(rows) |->
        [rows[k] EXCEPT !.sync_status = status, !.try_count = @ + 1]]

\* mutant: the row is written again, with the current time
UpdateTouchesRow(rows, record_id, status) ==
    [k \in 1..Len(rows) |->
        IF rows[k].id = record_id
        THEN [rows[k] EXCEPT !.sync_status = status, !.try_count = @ + 1,
                             !.created_at = MaxTime]
        ELSE rows[k]]

\* UPDATE history SET sync_status = ?1, try_count = try_count + 1 WHERE id = ?2
UpdateRows(rows, record_id, status) ==
    [k \in 1..Len(rows) |->
        IF rows[k].id = record_id
        THEN [rows[k] EXCEPT !.sync_status = status, !.try_count = @ + 1]
        ELSE rows[k]]

\* PersistentHistory::add_record: one transaction around one INSERT; a failure
\* of any await returns Err and the transaction is rolled back
add_record(record, now, io) ==
    /\ Len(history) < MaxRecords
    /\ IF io = "ok"
       THEN /\ history' = Append(history,
                                 InsertedRow(record, now, Len(history) + 1))
            /\ result' = [op |-> "add_record", record |-> record, now |-> now,
                          ok |-> TRUE, value |-> Len(history) + 1]
       ELSE /\ history' = history
            /\ result' = [op |-> "add_record", record |-> record, now |-> now,
                          ok |-> FALSE, value |-> 0]
    /\ prevQuery' = NotePrevQuery
    /\ UNCHANGED monitorVars
    /\ UNCHANGED pipelineVars

\* mutant: the rows that were read are marked as read
get_records_after_marking(after_ts, io) ==
    /\ history' = IF io = "ok"
                  THEN [k \in 1..Len(history) |->
                          IF WhereCreatedAt(history[k], after_ts)
                          THEN [history[k] EXCEPT !.sync_status = 1]
                          ELSE history[k]]
                  ELSE history
    /\ result' = [op |-> "get_records_after", after_ts |-> after_ts,
                  ok |-> io = "ok",
                  value |-> IF io = "ok"
                            THEN [k \in 1..Len(SelectAfter(history, after_ts)) |->
                                    RowToRecord(SelectAfter(history, after_ts)[k])]
                            ELSE <<>>]
    /\ prevQuery' = NotePrevQuery
    /\ UNCHANGED monitorVars
    /\ UNCHANGED pipelineVars

\* PersistentHistory::get_records_after
get_records_after(after_ts, io) ==
    /\ history' = history
    /\ result' = [op |-> "get_records_after", after_ts |-> after_ts,
                  ok |-> io = "ok",
                  value |-> IF io = "ok"
                            THEN [k \in 1..Len(SelectAfter(history, after_ts)) |->
                                    RowToRecord(SelectAfter(history, after_ts)[k])]
                            ELSE <<>>]
    /\ prevQuery' = NotePrevQuery
    /\ UNCHANGED monitorVars
    /\ UNCHANGED pipelineVars

\* PersistentHistory::update_sync_status: one UPDATE statement
update_sync_status(record_id, status, io) ==
    /\ \A k \in 1..Len(history) :
          history[k].id = record_id => history[k].try_count < MaxTries
    /\ history' = IF io = "ok" THEN UpdateRows(history, record_id, status)
                               ELSE history
    /\ result' = [op |-> "update_sync_status", record_id |-> record_id,
                  status |-> status, ok |-> io = "ok"]
    /\ prevQuery' = NotePrevQuery
    /\ UNCHANGED monitorVars
    /\ UNCHANGED pipelineVars

LedgerNext ==
    \/ \E record \in InputRecords, now \in Times, io \in IoOutcomes :
          add_record(record, now, io)
    \/ \E after_ts \in 0..MaxTime, io \in IoOutcomes :
          get_records_after(after_ts, io)
    \/ \E record_id \in 1..(MaxRecords + 1), status \in Statuses,
          io \in IoOutcomes :
          update_sync_status(record_id, status, io)

LedgerSpec == Init /\ [][LedgerNext]_vars

(***************************************************************************)
(* monitor.rs: DataMonitor, the reconciler of the ledger.                  *)
(*   get_transactions_after is called on PersistentHistory but is not one  *)
(*   of its methods in history.rs; it is the ledger's list_since: the      *)
(*   records later than the watermark, oldest first.  A transaction is one *)
(*   ledger record: its author, its timestamp (created_at) and one change. *)
(***************************************************************************)
Partitions == {"local", "sender"}

\* list_since(after_timestamp)
get_transactions_after(rows, ts) == SelectAfter(rows, ts)

\* the handlers the application supplies may fail: the ids of the records whose
\* handler returns Err in one cycle
HandlerFailures == SUBSET (1..MaxRecords)

\* handle_local_change(&change)
handle_local_change(change, failing) ==
    IF change.id \in failing THEN "Err" ELSE "Ok"

\* handle_sender_change(&change)
handle_sender_change(change, failing) ==
    IF change.id \in failing THEN "Err" ELSE "Ok"

\* the for loop of process_local_changes from transaction k on: the watermark
\* after it, whether it ended by `?`, and the handler calls it made
RECURSIVE LocalLoop(_, _, _, _, _)
LocalLoop(transactions, k, failing, watermark, calls) ==
    IF k > Len(transactions)
    THEN [ok |-> TRUE, watermark |-> watermark, calls |-> calls]
    ELSE IF transactions[k].author # "sender"
         THEN IF handle_local_change(transactions[k], failing) = "Err"
              THEN [ok |-> FALSE, watermark |-> watermark,
                    calls |-> Append(calls, [id |-> transactions[k].id,
                                             ok |-> FALSE])]
              ELSE LocalLoop(transactions, k + 1, failing,
                             transactions[k].created_at,
                             Append(calls, [id |-> transactions[k].id,
                                            ok |-> TRUE]))
         ELSE LocalLoop(transactions, k + 1, failing, watermark, calls)

\* the for loop of process_sender_changes from transaction k on
RECURSIVE SenderLoop(_, _, _, _, _)
SenderLoop(transactions, k, failing, watermark, calls) ==
    IF k > Len(transactions)
    THEN [ok |-> TRUE, watermark |-> watermark, calls |-> calls]
    ELSE IF transactions[k].author = "sender"
         THEN IF handle_sender_change(transactions[k], failing) = "Err"
              THEN [ok |-> FALSE, watermark |-> watermark,
                    calls |-> Append(calls, [id |-> transactions[k].id,
                                             ok |-> FALSE])]
              ELSE SenderLoop(transactions, k + 1, failing,
                              transactions[k].created_at,
                              Append(calls, [id |-> transactions[k].id,
                                             ok |-> TRUE]))
         ELSE SenderLoop(transactions, k + 1, failing, watermark, calls)

\* ids of the transactions of a batch that belong to partition p, in order
BatchOf(p, transactions) ==
    LET mine == SelectSeq(transactions,
                          LAMBDA t : (t.author = "sender") <=> (p = "sender"))
    IN  [k \in 1..Len(mine) |-> mine[k].id]

\* history kept beside a cycle
NoteCycle(p, transactions, loop) ==
    LET called == {loop.calls[k].id : k \in 1..Len(loop.calls)}
        returnedOk == {loop.calls[k].id :
                          k \in {j \in 1..Len(loop.calls) : loop.calls[j].ok}}
    IN  /\ lastCycle' = [lastCycle EXCEPT
                            ![p] = [ran |-> TRUE, ok |-> loop.ok,
                                    batch |-> BatchOf(p, transactions),
                                    calls |-> loop.calls]]
        /\ handlerLog' = [handlerLog EXCEPT
                            !.passed[p] = @ \cup called,
                            !.again[p] = @ \cup (handlerLog.passed[p] \cap called),
                            !.done[p] = @ \cup returnedOk,
                            !.failed = @ \/ ~loop.ok]

\* mutant: every cycle scans the ledger from the start
process_local_changes_rescan(failing, io) ==
    /\ IF io = "ok"
       THEN LET transactions == get_transactions_after(history, 0)
                loop == LocalLoop(transactions, 1, failing,
                                  local_last_timestamp, <<>>)
            IN  /\ local_last_timestamp' = loop.watermark
                /\ NoteCycle("local", transactions, loop)
                /\ result' = [op |-> "process_local_changes", read |-> TRUE,
                              ok |-> loop.ok]
       ELSE /\ UNCHANGED <<local_last_timestamp, lastCycle, handlerLog>>
            /\ result' = [op |-> "process_local_changes", read |-> FALSE,
                          ok |-> FALSE]
    /\ prevQuery' = NotePrevQuery
    /\ UNCHANGED <<history, sender_last_timestamp>>
    /\ UNCHANGED pipelineVars

\* DataMonitor::process_local_changes
process_local_changes(failing, io) ==
    /\ IF io = "ok"
       THEN LET transactions ==
                    get_transactions_after(history, local_last_timestamp)
                loop == LocalLoop(transactions, 1, failing,
                                  local_last_timestamp, <<>>)
            IN  /\ local_last_timestamp' = loop.watermark
                /\ NoteCycle("local", transactions, loop)
                /\ result' = [op |-> "process_local_changes", read |-> TRUE,
                              ok |-> loop.ok]
       ELSE /\ UNCHANGED <<local_last_timestamp, lastCycle, handlerLog>>
            /\ result' = [op |-> "process_local_changes", read |-> FALSE,
                          ok |-> FALSE]
    /\ prevQuery' = NotePrevQuery
    /\ UNCHANGED <<history, sender_last_timestamp>>
    /\ UNCHANGED pipelineVars

\* mutant: one watermark for both partitions
process_sender_changes_shared(failing, io) ==
    /\ IF io = "ok"
       THEN LET transactions ==
                    get_transactions_after(history, sender_last_timestamp)
                loop == SenderLoop(transactions, 1, failing,
                                   sender_last_timestamp, <<>>)
            IN  /\ sender_last_timestamp' = loop.watermark
                /\ local_last_timestamp' = loop.watermark
                /\ NoteCycle("sender", transactions, loop)
                /\ result' = [op |-> "process_sender_changes", read |-> TRUE,
                              ok |-> loop.ok]
       ELSE /\ UNCHANGED <<sender_last_timestamp, local_last_timestamp,
                           lastCycle, handlerLog>>
            /\ result' = [op |-> "process_sender_changes", read |-> FALSE,
                          ok |-> FALSE]
    /\ prevQuery' = NotePrevQuery
    /\ UNCHANGED history
    /\ UNCHANGED pipelineVars

\* DataMonitor::process_sender_changes
process_sender_changes(failing, io) ==
    /\ IF io = "ok"
       THEN LET transactions ==
                    get_transactions_after(history, sender_last_timestamp)
                loop == SenderLoop(transactions, 1, failing,
                                   sender_last_timestamp, <<>>)
            IN  /\ sender_last_timestamp' = loop.watermark
                /\ NoteCycle("sender", transactions, loop)
                /\ result' = [op |-> "process_sender_changes", read |-> TRUE,
                              ok |-> loop.ok]
       ELSE /\ UNCHANGED <<sender_last_timestamp, lastCycle, handlerLog>>
            /\ result' = [op |-> "process_sender_changes", read |-> FALSE,
                          ok |-> FALSE]
    /\ prevQuery' = NotePrevQuery
    /\ UNCHANGED <<history, local_last_timestamp>>
    /\ UNCHANGED pipelineVars

MonitorNext ==
    \/ \E record \in InputRecords, now \in Times, io \in IoOutcomes :
          add_record(record, now, io)
    \/ \E failing \in HandlerFailures, io \in IoOutcomes :
          process_local_changes(failing, io)
    \/ \E failing \in HandlerFailures, io \in IoOutcomes :
          process_sender_changes(failing, io)

MonitorSpec == Init /\ [][MonitorNext]_vars

\* the process stops and is started again: DataMonitor::new gives a monitor
\* whose watermarks are 0; the ledger is on disk and stays
new ==
    /\ handlerLog.restarts < MaxRestarts
    /\ local_last_timestamp' = 0
    /\ sender_last_timestamp' = 0
    /\ lastCycle' = [p \in Partitions |->
                        [ran |-> FALSE, ok |-> TRUE, batch |-> <<>>,
                         calls |-> <<>>]]
    /\ handlerLog' = [handlerLog EXCEPT !.restarts = @ + 1,
                                        !.present = 1..Len(history)]
    /\ result' = [op |-> "new"]
    /\ prevQuery' = NotePrevQuery
    /\ UNCHANGED history
    /\ UNCHANGED pipelineVars

RestartNext ==
    \/ MonitorNext
    \/ new

\* the reconciler polls both partitions again and again, and read errors and
\* handler errors are transient: a cycle in which the ledger is read and every
\* handler returns Ok is not put off forever
FairMonitorSpec ==
    /\ Init /\ [][RestartNext]_vars
    /\ SF_vars(process_local_changes({}, "ok"))
    /\ SF_vars(process_sender_changes({}, "ok"))

(***************************************************************************)
(* Helpers of the properties.                                              *)
(***************************************************************************)
\* the events that exist: in the channel or held by a dispatcher
LiveEvents ==
    {queue[k] : k \in 1..Len(queue)}
        \cup {devt[d].v : d \in {x \in Dispatchers : devt[x].some}}

\* the column labels of a value list, in order
Labels(pairs) == [k \in 1..Len(pairs) |-> pairs[k][1]]

ShapeOk(e) ==
    /\ e.operation = "INSERT" => ~e.old_values.some
    /\ e.operation = "DELETE" => ~e.new_values.some
    /\ e.operation = "UPDATE" =>
          /\ e.old_values.some
          /\ e.new_values.some
          /\ Len(e.old_values.v) = Len(e.new_values.v)
          /\ Labels(e.old_values.v) = Labels(e.new_values.v)

\* a capacity the channel would have to respect: any value below the number of
\* events the writers can produce shows whether the channel is bounded
QueueCapacity == MaxEvents - 1

(***************************************************************************)
(* C1: every Change Event the hook builds has the shape of its operation:  *)
(* no old_values for Insert, no new_values for Delete, and for Update both *)
(* lists present with the same length and the same column order, also when *)
(* the read of a column value fails.                                       *)
(***************************************************************************)
C1_EventShape == \A e \in LiveEvents : ShapeOk(e)

(***************************************************************************)
(* C2: the hook never blocks the writer and never fails the statement:     *)
(* whatever the channel holds, a statement the writer can execute has its  *)
(* hook run to completion in one step, that step either enqueues the event *)
(* or leaves the channel as it was, and the statement takes effect.        *)
(***************************************************************************)
C2_HookNeverBlocks ==
    /\ [](\A w \in Writers, op \in Operations :
            CanExecute(w, op) => ENABLED preupdate_hook(w, op, {}, {}))
    /\ [][nextId' # nextId =>
            /\ \/ /\ Len(queue') = Len(queue) + 1
                  /\ SubSeq(queue', 1, Len(queue)) = queue
                  /\ queue'[Len(queue')].id = nextId'
               \/ queue' = queue
            /\ \E w \in Writers, op \in Operations :
                  /\ CanExecute(w, op)
                  /\ table' = [table EXCEPT
                                 ![w] = RowAfter(table[w], CaseOf(w, op, table[w]))]
         ]_vars

\* a hook ran while the channel already held an event
C2_Witness == Len(queue) >= 2

(***************************************************************************)
(* C3: the Event Queue is bounded: it never holds more events than a fixed *)
(* capacity, a send on a full queue drops the event.                       *)
(***************************************************************************)
C3_QueueBounded == Len(queue) <= QueueCapacity

(***************************************************************************)
(* Helpers of the pipeline properties.                                     *)
(***************************************************************************)
NoDuplicates(seq) ==
    \A a, b \in 1..Len(seq) : a # b => seq[a] # seq[b]

Range(seq) == {seq[k] : k \in 1..Len(seq)}

PositionIn(seq, x) == CHOOSE k \in 1..Len(seq) : seq[k] = x

InvokedIds == [k \in 1..Len(invoked) |-> invoked[k].id]

\* dispatcher threads that were spawned
Running == {d \in Dispatchers : dpc[d] # "off"}

\* dispatchers that hold event i and have not yet read the callback pointer
HoldersBeforeRead(i) ==
    {d \in Dispatchers : dpc[d] = "got" /\ devt[d].some /\ devt[d].v.id = i}

\* dispatchers that hold event i
Holders(i) == {d \in Dispatchers : devt[d].some /\ devt[d].v.id = i}

\* the callback invocations that delivered event i
Deliveries(i) == {k \in 1..Len(invoked) : invoked[k].id = i}

(***************************************************************************)
(* C4: the events of one writer reach the callback in program order: of    *)
(* two delivered events of the same writer, the one produced first is      *)
(* delivered first.                                                        *)
(***************************************************************************)
C4_ProgramOrder ==
    \A a, b \in 1..Len(invoked) :
        (a < b /\ invoked[a].writer = invoked[b].writer)
            => invoked[a].id < invoked[b].id

(***************************************************************************)
(* C5: every event the channel accepted is consumed exactly once: it is in *)
(* the channel or was received, never both, it is received and delivered   *)
(* at most once, it is held by at most one dispatcher, and while a         *)
(* dispatcher thread exists an event in the channel is eventually received.*)
(***************************************************************************)
C5_ConsumedExactlyOnce ==
    /\ [](/\ NoDuplicates(dequeued)
          /\ NoDuplicates(InvokedIds)
          /\ QueuedIds \cap Range(dequeued) = {}
          /\ QueuedIds \cup Range(dequeued) = 1..nextId
          /\ \A i \in 1..nextId :
                /\ Cardinality(Holders(i)) <= 1
                /\ Holders(i) # {} => i \in Range(dequeued)
                /\ Deliveries(i) # {} => i \in Range(dequeued))
    /\ \A i \in EventIds :
          (i \in QueuedIds /\ Running # {}) ~> (i \in Range(dequeued))

\* two events were received, the channel is empty, a callback was called
C5_Witness ==
    /\ Len(dequeued) >= 2
    /\ Len(invoked) >= 1
    /\ queue = <<>>

(***************************************************************************)
(* C6: the callback runs strictly one invocation at a time and in dequeue  *)
(* order, however many times start_event_dispatcher was called.            *)
(***************************************************************************)
C6_OneAtATime ==
    /\ Cardinality({d \in Dispatchers : dpc[d] = "in_callback"}) <= 1
    /\ \A a, b \in 1..Len(invoked) :
          a < b => PositionIn(dequeued, invoked[a].id)
                      < PositionIn(dequeued, invoked[b].id)

(***************************************************************************)
(* C7: once swift_main has returned 0, exactly one dispatcher thread is    *)
(* running.                                                                *)
(***************************************************************************)
C7_OneDispatcherAfterInit ==
    mainResult = 0 => Cardinality(Running) = 1

C9_LastRegistrationWins ==
    /\ SWIFT_CALLBACK =
          (IF regHist = <<>> THEN NoCallback ELSE regHist[Len(regHist)])
    /\ \A k \in 1..Len(invoked) :
          /\ invoked[k].reg >= 1
          /\ invoked[k].cb = regHist[invoked[k].reg]
    /\ Len(regHist) < MaxRegs =>
          \A cb \in Callbacks : ENABLED register_swift_callback(cb)

\* an event was delivered to the second of two different registered callbacks
C9_Witness ==
    \E k \in 1..Len(invoked) :
        /\ invoked[k].reg = 2
        /\ regHist[1] # regHist[2]
        /\ invoked[k].cb = regHist[2]

C11_PanicKeepsDispatcher ==
    \A d \in Dispatchers : dpc[d] \in {"off", "recv", "got", "in_callback"}

(***************************************************************************)
(* C12: once a shutdown is requested, new sends are no longer accepted:    *)
(* the hook builds no further event and no event is added to the channel.  *)
(***************************************************************************)
C12_GracefulShutdown ==
    [][shutdown => /\ Len(queue') <= Len(queue)
                   /\ nextId' = nextId]_vars

(***************************************************************************)
(* Helpers of the ledger properties.                                       *)
(***************************************************************************)
\* this step is a call of the PersistentHistory method op
LedgerStep(op) == result'.op = op /\ ledgerVars' # ledgerVars

\* the last call was a get_records_after that returned Ok
QueryReturned == result.op = "get_records_after" /\ result.ok

\* positions of the rows of the table that are later than t
RowsAfter(t) == {k \in 1..Len(history) : history[k].created_at > t}

(***************************************************************************)
(* C13: a successful append stores the new row with sync_status = 0 and    *)
(* try_count = 0 and with created_at equal to the time of the append,      *)
(* whatever the caller's record carries, and returns the id of that row.   *)
(***************************************************************************)
C13_AppendResetsSyncFields ==
    (result.op = "add_record" /\ result.ok) =>
        /\ result.value = Len(history)
        /\ history[result.value].id = result.value
        /\ history[result.value].created_at = result.now
        /\ history[result.value].sync_status = 0
        /\ history[result.value].try_count = 0

(***************************************************************************)
(* C14: get_records_after(t) returns exactly the rows whose created_at is  *)
(* strictly greater than t, each once and with the fields of its row, in   *)
(* ascending created_at order; a row with created_at = t is not returned.  *)
(***************************************************************************)
C14_ListSinceExact ==
    QueryReturned =>
        /\ Len(result.value) = Cardinality(RowsAfter(result.after_ts))
        /\ \A k \in RowsAfter(result.after_ts) :
              Cardinality({j \in 1..Len(result.value) :
                              result.value[j] = RowToRecord(history[k])}) = 1
        /\ \A j \in 1..Len(result.value) :
              /\ result.value[j].created_at > result.after_ts
              /\ result.value[j].created_at # result.after_ts
              /\ result.value[j].id.some
              /\ result.value[j].id.v \in RowsAfter(result.after_ts)
        /\ \A a, b \in 1..Len(result.value) :
              a < b => result.value[a].created_at <= result.value[b].created_at

\* the table holds a row written at time 2 and then a row written at time 1, and
\* get_records_after(1) returned the first of them only
C14_Witness ==
    /\ QueryReturned
    /\ result.after_ts = 1
    /\ Len(history) = 2
    /\ history[1].created_at = 2
    /\ history[2].created_at = 1
    /\ Len(result.value) = 1
    /\ result.value[1].id = Some(1)

C16_MarkAttempted ==
    [][(LedgerStep("update_sync_status") /\ result'.ok) =>
          /\ Len(history') = Len(history)
          /\ \A k \in 1..Len(history) :
                IF history[k].id = result'.record_id
                THEN /\ history'[k].sync_status = result'.status
                     /\ history'[k].try_count = history[k].try_count + 1
                     /\ \A f \in {"id", "entity_name", "entity_id", "change_type",
                                  "author", "created_at"} :
                           history'[k][f] = history[k][f]
                ELSE history'[k] = history[k]
      ]_vars

\* row 2 was marked twice, last with status 2, and row 1 is as it was inserted
C16_Witness ==
    /\ result.op = "update_sync_status"
    /\ result.ok
    /\ result.record_id = 2
    /\ result.status = 2
    /\ Len(history) = 2
    /\ history[2].sync_status = 2
    /\ history[2].try_count = 2
    /\ history[1].sync_status = 0
    /\ history[1].try_count = 0

(***************************************************************************)
(* C17: the ledger is append-only: over add_record, get_records_after and  *)
(* update_sync_status no row disappears, the number of rows never          *)
(* decreases, and id, entity_name, entity_id, change_type, author and      *)
(* created_at of a row never change.                                       *)
(***************************************************************************)
C17_AppendOnly ==
    [][/\ Len(history') >= Len(history)
       /\ \A k \in 1..Len(history) :
             \A f \in {"id", "entity_name", "entity_id", "change_type", "author",
                       "created_at"} :
                 history'[k][f] = history[k][f]
      ]_vars

\* two rows were appended, the older one at time 1 was then marked and read back
C17_Witness ==
    /\ QueryReturned
    /\ Len(history) = 2
    /\ history[1].created_at = 1
    /\ history[1].try_count > 0
    /\ Len(result.value) = 2

(***************************************************************************)
(* Helpers of the reconciler properties.                                   *)
(***************************************************************************)
\* this step is a call of the DataMonitor method op
MonitorStep(op) ==
    /\ result'.op = op
    /\ <<ledgerVars, monitorVars>>' # <<ledgerVars, monitorVars>>

\* the method that runs a cycle of partition p
CycleOp(p) ==
    IF p = "local" THEN "process_local_changes" ELSE "process_sender_changes"

\* the watermark of partition p
Watermark(p) ==
    IF p = "local" THEN local_last_timestamp ELSE sender_last_timestamp

\* ids of the records the handler was called on in a cycle
CalledIds(cycle) == {cycle.calls[k].id : k \in 1..Len(cycle.calls)}

\* ids of the records the handler failed on in a cycle
FailedIds(cycle) ==
    {cycle.calls[k].id : k \in {j \in 1..Len(cycle.calls) : ~cycle.calls[j].ok}}

(***************************************************************************)
(* C18: the partitions keep independent watermarks: a call of              *)
(* process_sender_changes leaves local_last_timestamp unchanged and a call *)
(* of process_local_changes leaves sender_last_timestamp unchanged,        *)
(* whatever the ledger holds and whatever the handlers return.             *)
(***************************************************************************)
C18_IndependentWatermarks ==
    [][/\ MonitorStep("process_sender_changes")
            => local_last_timestamp' = local_last_timestamp
       /\ MonitorStep("process_local_changes")
            => sender_last_timestamp' = sender_last_timestamp
      ]_vars

\* the local partition has advanced to time 2, then the sender partition ran and
\* advanced to time 1
C18_Witness ==
    /\ result.op = "process_sender_changes"
    /\ result.ok
    /\ local_last_timestamp = 2
    /\ sender_last_timestamp = 1
    /\ lastCycle["sender"].calls # <<>>

PartitionOf(r) == IF history[r].author = "sender" THEN "sender" ELSE "local"

\* record r is in the ledger and the handler of its partition has returned Ok
\* for it
Handled(r) ==
    /\ r \in 1..Len(history)
    /\ r \in handlerLog.done[PartitionOf(r)]

C22_ScanSkipsNoRecord ==
    \A r \in 1..MaxRecords : (r \in 1..Len(history)) ~> Handled(r)

(***************************************************************************)
(* The value codec on its own: value_to_string applied to a column value.  *)
(***************************************************************************)
\* the bytes column values are made of
Bytes == {0, 1, 2, 3, 255}
TextBytes == {97, 98, 255}
Integers == {-12, -1, 0, 7, 42, 100}

RECURSIVE SeqsUpTo(_, _)
SeqsUpTo(S, n) ==
    IF n = 0 THEN {<<>>}
    ELSE LET shorter == SeqsUpTo(S, n - 1)
         IN  shorter \cup {Append(q, x) : q \in shorter, x \in S}

Reals ==
    {VReal("nan", FALSE, 0, <<>>)}
      \cup {VReal("inf", neg, 0, <<>>) : neg \in BOOLEAN}
      \cup {VReal("finite", neg, whole, frac) :
               neg \in BOOLEAN, whole \in {0, 1, 42},
               frac \in {<<>>, <<5>>, <<2, 5>>}}

ValueRefs ==
    {VNull}
      \cup {VInteger(i) : i \in Integers}
      \cup Reals
      \cup {VText(t) : t \in SeqsUpTo(TextBytes, MaxTextLen)}
      \cup {VBlob(b) : b \in SeqsUpTo(Bytes, MaxBlobLen)}

\* any column value may be handed to the codec
CodecInit ==
    /\ InitProgram
    /\ InitContacts
    /\ InitMessages
    /\ InitAccess
    /\ value \in ValueRefs
    /\ encoded = None

\* value_to_string(&value)
encode ==
    /\ encoded = None
    /\ encoded' = Some(value_to_string(value))
    /\ UNCHANGED <<value, ready, contactVars, messageVars, cbAccess>>
    /\ UNCHANGED programVars

CodecNext == encode

CodecSpec == CodecInit /\ [][CodecNext]_vars

\* the decimal text of the integers of the model
DecimalText(i) ==
    CASE i = -12 -> "-12" [] i = -1 -> "-1" [] i = 0 -> "0" [] i = 7 -> "7"
      [] i = 42 -> "42" [] i = 100 -> "100"

ValidUtf8(bytes) == \A k \in 1..Len(bytes) : bytes[k] < 128

(***************************************************************************)
(* C23: the value codec is total and deterministic on Null, Integer, Real, *)
(* Text and Blob: every value can be encoded and the result is a string;   *)
(* Null gives "NULL", an Integer its decimal text (42 gives "42"), valid   *)
(* UTF-8 Text the text itself, a Blob its padded standard base64 text      *)
(* (bytes 1,2,3 give "AQID"), four characters for every three bytes.       *)
(***************************************************************************)
C23_ValueCodec ==
    /\ ~encoded.some => ENABLED encode
    /\ encoded.some =>
          /\ encoded.v \in STRING
          /\ value.t = "Null" => encoded.v = "NULL"
          /\ value.t = "Integer" => encoded.v = DecimalText(value.i)
          /\ value = VInteger(42) => encoded.v = "42"
          /\ (value.t = "Text" /\ ValidUtf8(value.s)) =>
                /\ Len(encoded.v) = Len(value.s)
                /\ value.s = <<97>> => encoded.v = "a"
                /\ value.s = <<98, 97>> => encoded.v = "ba"
          /\ value.t = "Blob" =>
                /\ Len(encoded.v) = 4 * ((Len(value.b) + 2) \div 3)
                /\ value.b = <<1, 2, 3>> => encoded.v = "AQID"
                /\ value.b = <<1>> => encoded.v = "AQ=="
                /\ value.b = <<1, 2>> => encoded.v = "AQI="
                /\ value.b = <<255, 255, 255>> => encoded.v = "////"

\* the blob 1,2,3 has been encoded
C23_Witness ==
    /\ value = VBlob(<<1, 2, 3>>)
    /\ encoded = Some("AQID")

(***************************************************************************)
(* lib.rs: check_db_ready, among the other calls of the host.              *)
(***************************************************************************)
check_db_ready_code(conn) == IF conn THEN 0 ELSE 1

check_db_ready ==
    /\ ready' = check_db_ready_code(GLOBAL_CONN)
    /\ UNCHANGED <<codecVars, contactVars, messageVars, cbAccess>>
    /\ UNCHANGED programVars

\* the calls the host makes on the exported functions
ReadyNext ==
    \/ \E outcome \in InitOutcomes : init_database(outcome)
    \/ \E cb \in Callbacks : register_swift_callback(cb)
    \/ \E cb \in Callbacks : set_swift_callback(cb)
    \/ \E outcome \in InitOutcomes, cb \in Callbacks : swift_main(outcome, cb)
    \/ \E d \in Dispatchers : start_event_dispatcher(d)
    \/ check_db_ready

ReadySpec == Init /\ [][ReadyNext]_vars

(***************************************************************************)
(* C24: check_db_ready returns 0 exactly when some call of init_database   *)
(* has returned 0 and returns 1 otherwise; a call of init_database with a  *)
(* null path or key returns 1 and leaves the stored connection, and so the *)
(* answer of check_db_ready, as it was.                                    *)
(***************************************************************************)
C24_ReadyIffInitialised ==
    /\ [](check_db_ready_code(GLOBAL_CONN) = 0 <=> initOk)
    /\ [](ready = 0 => initOk)
    /\ [][check_db_ready => /\ ready' \in {0, 1}
                            /\ ready' = 0 <=> initOk]_vars
    /\ [][init_database("null_argument") =>
            /\ init_database_code("null_argument") = 1
            /\ GLOBAL_CONN' = GLOBAL_CONN
            /\ check_db_ready_code(GLOBAL_CONN')
                  = check_db_ready_code(GLOBAL_CONN)]_vars

\* init_database was called directly and returned 0, then check_db_ready
\* returned 0
C24_Witness ==
    /\ mainResult = -1
    /\ initOk
    /\ ready = 0

(***************************************************************************)
(* contact.rs: ContactRepo on the table contact_data                       *)
(*   id BLOB PRIMARY KEY, first_name TEXT NOT NULL, last_name TEXT NOT     *)
(*   NULL, relationship INTEGER NOT NULL, username, language,              *)
(*   picture_data, picture_url, last_message_at, created_at INTEGER NOT    *)
(*   NULL, updated_at INTEGER NOT NULL, is_pro INTEGER NOT NULL.           *)
(***************************************************************************)
ContactIds == {"k1", "k2"}

ContactInput(id, first_name, last_name, relationship, username, language, picture_data, picture_url, last_message_at, pro) ==
    [id |-> id, first_name |-> first_name, last_name |-> last_name,
     relationship |-> relationship, username |-> username,
     language |-> language, picture_data |-> picture_data,
     picture_url |-> picture_url, last_message_at |-> last_message_at,
     pro |-> pro]

\* the inputs the callers pass: every field given; an update that leaves the
\* last name, the username and pro out; an input without a first name
ContactInputs ==
    UNION {{ContactInput(id, Some("John"), Some("Doe"), 1, Some("johndoe"),
                         Some("en"), Some(<<1, 2, 3>>), Some("pic.jpg"),
                         Some(5), Some(1)),
            ContactInput(id, Some("Janet"), None, 2, None, Some("fr"),
                         Some(<<4, 5, 6>>), None, Some(6), None),
            ContactInput(id, None, Some("Smith"), 0, None, None, None, None,
                         None, Some(0))} : id \in ContactIds}

\* the rows of the table with the given id
RowsWithId(rows, id) == {r \in rows : r.id = id}

\* the row a SELECT ... WHERE id = ?1 steps to first
FirstRow(rows, id) == CHOOSE r \in RowsWithId(rows, id) : TRUE

\* ContactRepo::get_contact: the Contact built from the row, or None
get_contact(rows, id) ==
    IF RowsWithId(rows, id) = {} THEN None ELSE Some(FirstRow(rows, id))

\* COALESCE(?n, column)
Coalesce(param, column) == IF param.some THEN param.v ELSE column

\* ContactRepo::insert_contact: the INSERT fails on a NULL in a NOT NULL column
\* and on a second row for a PRIMARY KEY
insert_contact(rows, input, now) ==
    IF \/ ~input.first_name.some
       \/ ~input.last_name.some
       \/ RowsWithId(rows, input.id) # {}
    THEN [ok |-> FALSE, rows |-> rows]
    ELSE [ok |-> TRUE,
          rows |-> rows \cup
             {[id |-> input.id,
               first_name |-> input.first_name.v,
               last_name |-> input.last_name.v,
               relationship |-> input.relationship,
               username |-> input.username,
               language |-> input.language,
               picture_data |-> input.picture_data,
               picture_url |-> input.picture_url,
               last_message_at |-> input.last_message_at,
               created_at |-> now,
               updated_at |-> now,
               is_pro |-> IF input.pro.some THEN input.pro.v ELSE 0]}]

\* the row after UPDATE contact_data SET ... WHERE id = ?11
UpdatedContact(r, input, now) ==
    [r EXCEPT !.first_name = Coalesce(input.first_name, r.first_name),
              !.last_name = Coalesce(input.last_name, r.last_name),
              !.relationship = input.relationship,
              !.username = input.username,
              !.language = input.language,
              !.picture_data = input.picture_data,
              !.picture_url = input.picture_url,
              !.last_message_at = input.last_message_at,
              !.updated_at = now,
              !.is_pro = Coalesce(input.pro, r.is_pro)]

\* ContactRepo::update_contact
update_contact(rows, input, now) ==
    [ok |-> TRUE,
     rows |-> {IF r.id = input.id THEN UpdatedContact(r, input, now) ELSE r :
                 r \in rows}]

\* ContactRepo::add_contact_pb
add_contact_pb(input, now, io) ==
    /\ LET existing == get_contact(contact_data, input.id)
           done == IF io # "ok" THEN [ok |-> FALSE, rows |-> contact_data]
                   ELSE IF existing.some
                        THEN update_contact(contact_data, input, now)
                        ELSE insert_contact(contact_data, input, now)
       IN  /\ contact_data' = done.rows
           /\ contactCall' = [op |-> "add_contact_pb", input |-> input,
                              now |-> now, io |-> io, ok |-> done.ok]
    /\ UNCHANGED <<ready, codecVars, messageVars, cbAccess>>
    /\ UNCHANGED programVars

\* mutant: DELETE FROM contact_data without the WHERE clause
DeleteAllRows(rows, id) == {}

\* DELETE FROM contact_data WHERE id = ?1
DeleteWhereId(rows, id) == rows \ RowsWithId(rows, id)

\* ContactRepo::delete_contact
delete_contact(id, io) ==
    /\ contact_data' = IF io = "ok" THEN DeleteWhereId(contact_data, id)
                       ELSE contact_data
    /\ contactCall' = [op |-> "delete_contact", id |-> id, io |-> io,
                       ok |-> (io = "ok")]
    /\ UNCHANGED <<ready, codecVars, messageVars, cbAccess>>
    /\ UNCHANGED programVars

ContactNext ==
    \/ \E input \in ContactInputs, now \in Times, io \in IoOutcomes :
          add_contact_pb(input, now, io)
    \/ \E id \in ContactIds, io \in IoOutcomes : delete_contact(id, io)

ContactSpec == Init /\ [][ContactNext]_vars

\* a step that is a call of the ContactRepo method op on a working connection
ContactStep(op) ==
    /\ <<contact_data, contactCall>>' # <<contact_data, contactCall>>
    /\ contactCall'.op = op
    /\ contactCall'.io = "ok"

(***************************************************************************)
(* C25: add_contact_pb is an upsert keyed by id.  For an absent id the     *)
(* call returns Ok and get_contact then returns a contact with the given   *)
(* field values.  For a present id the call returns Ok, the table still    *)
(* has one row of that id and the other rows are as before; the row has    *)
(* the new relationship, language, picture_data and last_message_at, the   *)
(* new pro when one is given, and keeps its first_name / last_name when    *)
(* the input gives None for it.                                            *)
(***************************************************************************)
C25_AddContactUpserts ==
    [][ContactStep("add_contact_pb") =>
         LET input == contactCall'.input
             before == get_contact(contact_data, input.id)
             after == get_contact(contact_data', input.id)
         IN  /\ contactCall'.ok
             /\ after.some
             /\ Cardinality(RowsWithId(contact_data', input.id)) = 1
             /\ contact_data' \ RowsWithId(contact_data', input.id)
                   = contact_data \ RowsWithId(contact_data, input.id)
             /\ after.v.relationship = input.relationship
             /\ after.v.language = input.language
             /\ after.v.picture_data = input.picture_data
             /\ after.v.last_message_at = input.last_message_at
             /\ input.pro.some => after.v.is_pro = input.pro.v
             /\ input.first_name.some =>
                   after.v.first_name = input.first_name.v
             /\ input.last_name.some => after.v.last_name = input.last_name.v
             /\ ~before.some =>
                   /\ after.v.username = input.username
                   /\ after.v.picture_url = input.picture_url
             /\ before.some =>
                   /\ ~input.first_name.some =>
                         after.v.first_name = before.v.first_name
                   /\ ~input.last_name.some =>
                         after.v.last_name = before.v.last_name
      ]_vars

(***************************************************************************)
(* C26: delete_contact(id) returns Ok whenever the connection works,       *)
(* whether or not the id is stored; afterwards get_contact(id) is None and *)
(* the contacts of the other ids are as before, so a delete of an id that  *)
(* is not stored leaves the table as it was.                               *)
(***************************************************************************)
C26_DeleteContact ==
    [][ContactStep("delete_contact") =>
         LET id == contactCall'.id
         IN  /\ contactCall'.ok
             /\ get_contact(contact_data', id) = None
             /\ \A other \in ContactIds \ {id} :
                   RowsWithId(contact_data', other)
                     = RowsWithId(contact_data, other)
             /\ get_contact(contact_data, id) = None =>
                   contact_data' = contact_data
      ]_vars

\* a stored contact was deleted and the contact of the other id is still there
C26_Witness ==
    /\ contactCall.op = "delete_contact"
    /\ contactCall.ok
    /\ contactCall.id = "k1"
    /\ get_contact(contact_data, "k1") = None
    /\ get_contact(contact_data, "k2").some

(***************************************************************************)
(* message.rs: MessageRepo on the table message_data (id BLOB PRIMARY      *)
(* KEY).  A row carries the columns the modelled methods write with more   *)
(* than one value; prev, audio_url, duration, gpt_text, server_text,       *)
(* translated_text, language and try_count keep the value Message::default *)
(* gives them in every modelled method.                                    *)
(***************************************************************************)
MessageIds == {"m1", "m2"}

\* Uuid::now_v7() for from, to and contact_id of Message::default()
DefaultUuids == <<"v7a", "v7b", "v7c">>

\* the parsed json_input of add_incomming_message: an IncomingMessage, or a
\* text that serde_json rejects
IncomingMessages ==
    {[valid |-> TRUE, id |-> id, text |-> Some("Hello")] : id \in MessageIds}
      \cup {[valid |-> FALSE, id |-> "m1", text |-> None]}

\* the parsed json_input of add_message_struct
MessageStructs ==
    {[id |-> id, from |-> "a", to |-> "b", contact_id |-> "a",
      client_text |-> Some("c")] : id \in MessageIds}

MessagesWithId(rows, id) == {r \in rows : r.id = id}

\* MessageRepo::get_message_inner
get_message_inner(rows, id) ==
    IF MessagesWithId(rows, id) = {} THEN None
    ELSE Some(CHOOSE r \in MessagesWithId(rows, id) : TRUE)

\* Message { id, created_at, updated_at, ..Default::default() }
DefaultMessage(id, created_at, updated_at) ==
    [id |-> id, from |-> DefaultUuids[1], to |-> DefaultUuids[2],
     contact_id |-> DefaultUuids[3], status |-> 0, text |-> None,
     client_text |-> None, error |-> None, created_at |-> created_at,
     updated_at |-> updated_at]

\* MessageRepo::insert_message_inner: the INSERT fails on a second row for a
\* PRIMARY KEY
insert_message_inner(rows, msg) ==
    IF MessagesWithId(rows, msg.id) # {}
    THEN [ok |-> FALSE, rows |-> rows]
    ELSE [ok |-> TRUE, rows |-> rows \cup {msg}]

\* MessageRepo::update_message_inner: UPDATE ... WHERE id = ?18
update_message_inner(rows, msg) ==
    [ok |-> TRUE,
     rows |-> {IF r.id = msg.id THEN msg ELSE r : r \in rows}]

\* the call record and the table after a method that ran `done`
MessageDone(op, id, valid, existed, io, done) ==
    /\ message_data' = IF io = "ok" /\ done.ok THEN done.rows ELSE message_data
    /\ messageCall' = [op |-> op, id |-> id, valid |-> valid,
                       existed |-> existed, io |-> io,
                       ok |-> (io = "ok" /\ done.ok)]
    /\ UNCHANGED <<ready, codecVars, contactVars, cbAccess>>
    /\ UNCHANGED programVars

\* mutant: a message that is already stored takes the text of the input
add_incomming_message_upsert(inc, now, later, io) ==
    /\ now <= later
    /\ LET exists == get_message_inner(message_data, inc.id)
           new_data == [DefaultMessage(inc.id, now, later)
                          EXCEPT !.text = inc.text]
           done == IF ~inc.valid THEN [ok |-> FALSE, rows |-> message_data]
                   ELSE IF exists.some
                        THEN update_message_inner(message_data,
                                 [exists.v EXCEPT !.text = inc.text,
                                                  !.updated_at = later])
                        ELSE insert_message_inner(message_data, new_data)
       IN  MessageDone("add_incomming_message", inc.id, inc.valid,
                       exists.some, io, done)

\* MessageRepo::add_incomming_message; now and later are the two readings of
\* Message::current_timestamp()
add_incomming_message(inc, now, later, io) ==
    /\ now <= later
    /\ LET exists == get_message_inner(message_data, inc.id)
           new_data == [DefaultMessage(inc.id, now, later)
                          EXCEPT !.text = inc.text]
           done == IF ~inc.valid THEN [ok |-> FALSE, rows |-> message_data]
                   ELSE IF exists.some
                        THEN [ok |-> TRUE, rows |-> message_data]
                        ELSE insert_message_inner(message_data, new_data)
       IN  MessageDone("add_incomming_message", inc.id, inc.valid,
                       exists.some, io, done)

\* MessageRepo::add_message_struct
add_message_struct(msg, now, io) ==
    /\ LET existing == get_message_inner(message_data, msg.id)
           done == IF existing.some
                   THEN update_message_inner(message_data,
                            [existing.v EXCEPT !.from = msg.from,
                                               !.to = msg.to,
                                               !.contact_id = msg.contact_id,
                                               !.updated_at = now,
                                               !.client_text = msg.client_text])
                   ELSE insert_message_inner(message_data,
                            [id |-> msg.id, from |-> msg.from, to |-> msg.to,
                             contact_id |-> msg.contact_id, status |-> 0,
                             text |-> None, client_text |-> msg.client_text,
                             error |-> None, created_at |-> now,
                             updated_at |-> now])
       IN  MessageDone("add_message_struct", msg.id, TRUE, existing.some, io, done)

\* MessageRepo::add_message_pb
add_message_pb(id, now, io) ==
    /\ LET existing == get_message_inner(message_data, id)
           done == IF existing.some
                   THEN update_message_inner(message_data,
                            [existing.v EXCEPT !.updated_at = now])
                   ELSE insert_message_inner(message_data,
                            DefaultMessage(id, now, now))
       IN  MessageDone("add_message_pb", id, TRUE, existing.some, io, done)

\* MessageRepo::delete_message
delete_message(id, io) ==
    /\ LET rows == message_data \ MessagesWithId(message_data, id)
       IN  MessageDone("delete_message", id, TRUE,
                       MessagesWithId(message_data, id) # {}, io,
                       [ok |-> TRUE, rows |-> rows])

\* MessageRepo::update_message_error
update_message_error(id, err, now, io) ==
    /\ LET existing == get_message_inner(message_data, id)
           done == IF existing.some
                   THEN update_message_inner(message_data,
                            [existing.v EXCEPT !.status = 999,
                                               !.error = Some(err),
                                               !.updated_at = now])
                   ELSE [ok |-> TRUE, rows |-> message_data]
       IN  MessageDone("update_message_error", id, TRUE, existing.some, io, done)

\* MessageRepo::retry_message
retry_message(id, now, io) ==
    /\ LET existing == get_message_inner(message_data, id)
           done == IF existing.some
                   THEN update_message_inner(message_data,
                            [existing.v EXCEPT !.status = -1,
                                               !.updated_at = now,
                                               !.error = None])
                   ELSE [ok |-> TRUE, rows |-> message_data]
       IN  MessageDone("retry_message", id, TRUE, existing.some, io, done)

MessageNext ==
    \/ \E inc \in IncomingMessages, now \in Times, later \in Times,
          io \in IoOutcomes : add_incomming_message(inc, now, later, io)
    \/ \E msg \in MessageStructs, now \in Times, io \in IoOutcomes :
          add_message_struct(msg, now, io)
    \/ \E id \in MessageIds, now \in Times, io \in IoOutcomes :
          add_message_pb(id, now, io)
    \/ \E id \in MessageIds, io \in IoOutcomes : delete_message(id, io)
    \/ \E id \in MessageIds, now \in Times, io \in IoOutcomes :
          update_message_error(id, "e", now, io)
    \/ \E id \in MessageIds, now \in Times, io \in IoOutcomes :
          retry_message(id, now, io)

MessageSpec == Init /\ [][MessageNext]_vars

Torn == "torn"

Storing == {h \in Hosts : cbAccess[h].pc = "storing"}
Loading == {d \in Dispatchers : cbAccess[d].pc = "loading"}

\* the frame of an access to the static
AccessFrame ==
    /\ UNCHANGED <<connVars, writerVars, mainResult, shutdown, queue, dpc,
                   devt, dequeued, invoked, dropped, regHist, replacedAt>>
    /\ UNCHANGED <<ledgerVars, monitorVars>>
    /\ UNCHANGED <<ready, codecVars, contactVars, messageVars>>

\* unsafe { SWIFT_CALLBACK = Some(cb); } begins: nothing is waited for
CanStore(h) == TRUE

\* unsafe { if let Some(func) = SWIFT_CALLBACK ... } begins: nothing is
\* waited for
CanLoad(d) == TRUE

\* register_swift_callback(cb) on host thread h starts to write the static
StoreBegin(h, cb) ==
    /\ cbAccess[h].pc = "idle"
    /\ CanStore(h)
    /\ cbAccess' = [t \in Hosts \cup Dispatchers |->
                      IF t = h
                      THEN [pc |-> "storing", cb |-> cb,
                            raced |-> (Storing # {} \/ Loading # {})]
                      ELSE IF cbAccess[t].pc # "idle"
                           THEN [cbAccess[t] EXCEPT !.raced = TRUE]
                           ELSE cbAccess[t]]
    /\ UNCHANGED SWIFT_CALLBACK
    /\ AccessFrame

\* the write ends: the static holds the pointer, or a partial value when the
\* write overlapped another write
StoreEnd(h, outcome) ==
    /\ cbAccess[h].pc = "storing"
    /\ outcome \in {cbAccess[h].cb}
                     \cup (IF Storing # {h} THEN {Torn} ELSE {})
    /\ SWIFT_CALLBACK' = outcome
    /\ cbAccess' = [cbAccess EXCEPT ![h] = [pc |-> "idle", cb |-> NoCallback,
                                            raced |-> FALSE]]
    /\ AccessFrame

\* dispatcher thread d, holding an event, starts to read the static
LoadBegin(d) ==
    /\ cbAccess[d].pc = "idle"
    /\ CanLoad(d)
    /\ cbAccess' = [cbAccess EXCEPT ![d] = [pc |-> "loading",
                                            cb |-> SWIFT_CALLBACK,
                                            raced |-> (Storing # {})]]
    /\ UNCHANGED SWIFT_CALLBACK
    /\ AccessFrame

\* the read ends with the value d goes on with: the static's value when no
\* write overlapped the read, else the value before, the value now or a
\* partial one
LoadEnd(d, outcome) ==
    /\ cbAccess[d].pc = "loading"
    /\ outcome \in IF cbAccess[d].raced
                    THEN {cbAccess[d].cb, SWIFT_CALLBACK, Torn}
                    ELSE {SWIFT_CALLBACK}
    /\ cbAccess' = [cbAccess EXCEPT ![d] = [pc |-> "idle", cb |-> outcome,
                                            raced |-> cbAccess[d].raced]]
    /\ UNCHANGED SWIFT_CALLBACK
    /\ AccessFrame

AccessNext ==
    \/ \E h \in Hosts, cb \in Callbacks : StoreBegin(h, cb)
    \/ \E h \in Hosts, outcome \in Callbacks \cup {Torn} : StoreEnd(h, outcome)
    \/ \E d \in Dispatchers : LoadBegin(d)
    \/ \E d \in Dispatchers, outcome \in Callbacks \cup {NoCallback, Torn} :
          LoadEnd(d, outcome)

AccessSpec == Init /\ [][AccessNext]_vars

(***************************************************************************)
(* C30: access to the callback pointer is mutually exclusive: no           *)
(* registration writes the pointer while a dispatcher reads it, and the    *)
(* value a dispatcher goes on with is no callback or a registered          *)
(* callback, never a partial pointer.                                      *)
(***************************************************************************)
C30_CallbackAccessExclusive ==
    /\ ~(Storing # {} /\ Loading # {})
    /\ \A d \in Dispatchers :
          cbAccess[d].pc = "idle" => cbAccess[d].cb \in Callbacks \cup {NoCallback}

(***************************************************************************)
(* C28: the watermarks are monotonic: over cycles of both partitions       *)
(* interleaved with appends to the ledger, local_last_timestamp and        *)
(* sender_last_timestamp never decrease.                                   *)
(***************************************************************************)
C28_WatermarksMonotonic ==
    [][/\ local_last_timestamp' >= local_last_timestamp
       /\ sender_last_timestamp' >= sender_last_timestamp
      ]_vars

\* the local partition stands at time 2, a local record of time 1 was appended
\* after that, and a further local cycle has run
C28_Witness ==
    /\ result.op = "process_local_changes"
    /\ result.ok
    /\ local_last_timestamp = 2
    /\ Len(history) = 2
    /\ history[2].created_at = 1
    /\ history[2].author # "sender"
    /\ handlerLog.passed["local"] = {1}

(***************************************************************************)
(* C29: each record is handled by exactly one partition and is not         *)
(* reprocessed: it is passed to the sender handler only if its author is   *)
(* "sender" and to the local handler only otherwise, and when no handler   *)
(* has failed, a cycle of its partition that has just read the ledger      *)
(* leaves it passed to that partition's handler exactly once.              *)
(***************************************************************************)
C29_HandledByOnePartitionOnce ==
    \A r \in 1..Len(history) :
        /\ r \in handlerLog.passed["sender"] => history[r].author = "sender"
        /\ r \in handlerLog.passed["local"] => history[r].author # "sender"
        /\ r \notin handlerLog.passed["sender"] \cap handlerLog.passed["local"]
        /\ (/\ ~handlerLog.failed
            /\ result.op = CycleOp(PartitionOf(r))
            /\ result.read)
              => /\ r \in handlerLog.passed[PartitionOf(r)]
                 /\ r \notin handlerLog.again[PartitionOf(r)]

====
